---- MODULE Spec2Model ----
(***************************************************************************)
(* Model of the cflat runtime library (runtime.cc): the bump allocator     *)
(* _cflat_alloc and the semispace (Cheney) collector gc_collect with its   *)
(* helper process_transitive, together with the compiled program that      *)
(* drives them (frames, roots, header writes, field stores).               *)
(*                                                                         *)
(* Addresses are byte addresses; a word is WORDSIZE bytes.  The heap is a  *)
(* function from the word addresses of the malloc'ed buffer to word values *)
(* and the stack a function from stack word addresses to word values.      *)
(***************************************************************************)
EXTENDS Integers, Sequences, FiniteSets, TLC

VARIABLES
    pc,             \* where the process is: start, run, frame, roots, scan,
                    \* fields, retry, ret, exited
    heap_size,      \* static size_t heap_size (words)
    from_space,     \* static uintptr_t *from_space
    to_space,       \* static uintptr_t *to_space
    bump_ptr,       \* static uintptr_t *bump_ptr
    base_frame_ptr, \* static uintptr_t *base_frame_ptr
    mem,            \* the heap buffer: word address -> word
    stack,          \* the call stack: word address -> word
    cur_frame,      \* frame base (%rbp) of the running compiled function
    num_words,      \* _cflat_alloc's argument
    result,         \* _cflat_alloc's return value
    free_ptr,       \* gc_collect: free_ptr
    scan_ptr,       \* gc_collect: scan_ptr
    frame,          \* gc_collect: frame
    frame_idx,      \* gc_collect: frame_idx
    i,              \* gc_collect: loop index of the running for loop
    out,            \* standard output of the call in progress (log lines)
    exit_status,    \* -1 while running, else the status passed to exit
    pre,            \* the stack, heap and globals when the collection began
    nalloc          \* number of calls of _cflat_alloc so far

vars == << pc, heap_size, from_space, to_space, bump_ptr, base_frame_ptr, mem,
           stack, cur_frame, num_words, result, free_ptr, scan_ptr,
           frame, frame_idx, i, out, exit_status, pre, nalloc >>

-----------------------------------------------------------------------------
(* Bounds and constants *)

\* half of the heap, in words: CFLAT_HEAP_WORDS is twice this
HalfWords == 5
\* deepest call chain of the compiled program (main counts as one)
MaxDepth == 2
\* most calls of _cflat_alloc in one run
MaxAllocs == 3

WORDSIZE == 8
\* the address malloc returns for the heap buffer
MallocBase == 4096
\* what the words of the fresh malloc'ed buffer hold (never zero-filled)
Junk == 57005
\* frame base of main's caller, the frame __builtin_frame_address(2) names
StackTop == 32768
\* a non-pointer value the program stores in non-pointer fields
IntVal == 7

\* root counts of the compiled functions: main, then the functions it calls
FuncRoots == << 2, 1, 0 >>

StackWords == MaxDepth * 5 + 1
StackAddrs == { StackTop - WORDSIZE * k : k \in 0..StackWords }

Min(a, b) == IF a < b THEN a ELSE b

-----------------------------------------------------------------------------
(* Bit arithmetic on header words *)

Shr(x, n) == x \div (2 ^ n)
Shl(x, n) == x * (2 ^ n)
Bit(x, n) == (x \div (2 ^ n)) % 2
Low5(x) == x % 32

TAG_STRUCT_ATOMIC == 0
TAG_STRUCT_PTRS == 4
TAG_ARRAY_ATOMIC == 2
TAG_ARRAY_PTRS == 6

HalfBytes == (heap_size \div 2) * WORDSIZE

-----------------------------------------------------------------------------
(* Output lines.  Every line the runtime writes is a record: its kind and  *)
(* the (at most two) numbers it prints.                                    *)

Ev(k, a, b) == [k |-> k, a |-> a, b |-> b]

NoPre == [stack |-> << >>, mem |-> << >>, from |-> 0, to |-> 0, bump |-> 0,
          top |-> 0]

-----------------------------------------------------------------------------
(* Decimal strings: the value of CFLAT_HEAP_WORDS *)

DigitChars == << "0", "1", "2", "3", "4", "5", "6", "7", "8", "9" >>

isdigit(c) == \E d \in 1..10 : DigitChars[d] = c

DigitVal(c) == (CHOOSE d \in 1..10 : DigitChars[d] = c) - 1

RECURSIVE stoi(_)
stoi(s) ==
    IF s = << >> THEN 0
    ELSE 10 * stoi(SubSeq(s, 1, Len(s) - 1)) + DigitVal(s[Len(s)])

\* stoi returns int: it throws std::out_of_range beyond the largest int,
\* 2147483647; the test is made on the digits
IntMaxDigits == << "2", "1", "4", "7", "4", "8", "3", "6", "4", "7" >>

RECURSIVE StripZeros(_)
StripZeros(s) ==
    IF Len(s) > 1 /\ s[1] = "0" THEN StripZeros(SubSeq(s, 2, Len(s))) ELSE s

stoi_throws(s) ==
    LET d == StripZeros(s)
    IN  \/ Len(d) > Len(IntMaxDigits)
        \/ /\ Len(d) = Len(IntMaxDigits)
           /\ \E k \in DOMAIN d :
                /\ \A j \in 1..(k - 1) : d[j] = IntMaxDigits[j]
                /\ DigitVal(d[k]) > DigitVal(IntMaxDigits[k])

\* exit status of a process ended by abort (SIGABRT), as the shell reports it
AbortStatus == 134

RECURSIVE DecStr(_)
DecStr(n) ==
    IF n < 10 THEN << DigitChars[n + 1] >>
    ELSE DecStr(n \div 10) \o << DigitChars[(n % 10) + 1] >>

\* the values of CFLAT_HEAP_WORDS the process is started with
HeapEnvs ==
    { << >>, << "0" >>, << "1", "x" >>,
      DecStr(2 * HalfWords), DecStr(2 * HalfWords + 1),
      << "2", "1", "4", "7", "4", "8", "3", "6", "4", "9" >> }

-----------------------------------------------------------------------------
(* Headers *)

\* a decoder that reads the length of an atomic struct in words, not chunks
get_payload_words_no_chunks(header) ==
    LET len == Shr(header, 3)
        tag == header % 8
    IN  IF tag = TAG_STRUCT_PTRS THEN Shr(len, 5)
        ELSE IF tag = TAG_STRUCT_ATOMIC
             THEN IF Shr(len, 5) > 0 THEN Shr(len, 5) ELSE len
             ELSE len

get_payload_words(header) ==
    LET len == Shr(header, 3)
        tag == header % 8
    IN  IF tag = TAG_STRUCT_PTRS THEN Shr(len, 5)
        ELSE IF tag = TAG_STRUCT_ATOMIC
             THEN IF Shr(len, 5) > 0 THEN Shr(len, 5) ELSE len * 2
             ELSE len

\* a range test against the half being evacuated, which holds no forwarding address
is_forwarding_pointer_from_space(header) ==
    header >= from_space /\ header < from_space + HalfBytes

is_forwarding_pointer(header) ==
    header >= to_space /\ header < to_space + HalfBytes

\* the headers the compiled program writes, by kind
ArrayHeader(len, ptrs) == Shl(len, 3) + (IF ptrs THEN TAG_ARRAY_PTRS ELSE TAG_ARRAY_ATOMIC)
AtomicStructHeader(chunks) == Shl(chunks, 3) + TAG_STRUCT_ATOMIC
BitmapStructHeader(size, bitmap) == Shl(Shl(size, 5) + bitmap, 3) + TAG_STRUCT_ATOMIC
LeadingStructHeader(size, k) == Shl(Shl(size, 5) + k, 3) + TAG_STRUCT_PTRS

Headers ==
    { ArrayHeader(0, FALSE), ArrayHeader(1, TRUE), LeadingStructHeader(1, 0),
      AtomicStructHeader(1), BitmapStructHeader(2, 1), LeadingStructHeader(2, 1) }

\* the payload offsets at which an object with header h holds pointers
PtrFieldOffsets(h) ==
    LET len == Shr(h, 3)
        tag == h % 8
    IN  IF tag = TAG_ARRAY_PTRS THEN 0..(len - 1)
        ELSE IF tag = TAG_STRUCT_PTRS THEN 0..Low5(len)
        ELSE IF tag = TAG_STRUCT_ATOMIC /\ Shr(len, 5) > 0
             THEN { b + 1 : b \in { b \in 0..4 : Bit(Low5(len), b) = 1 } }
             ELSE { }

-----------------------------------------------------------------------------
(* print_header_log: what the log shows for a header.  offsets is the list *)
(* after 'ptr offsets =', empty when the log shows 'none'.                 *)

print_header_log(header) ==
    LET len == Shr(header, 3)
        tag == header % 8
        size == Shr(len, 5)
        ptr_bitmap == Low5(len)
    IN  IF tag = TAG_ARRAY_ATOMIC \/ tag = TAG_ARRAY_PTRS
        THEN [form |-> "Array", len |-> len, ptrs |-> (tag = TAG_ARRAY_PTRS)]
        ELSE IF tag = TAG_STRUCT_PTRS
        THEN [form |-> "Struct", size |-> size,
              offsets |-> IF ptr_bitmap = 0 THEN << >>
                          ELSE [j \in 1..Min(ptr_bitmap + 1, 5) |-> j - 1]]
        ELSE IF tag = TAG_STRUCT_ATOMIC
        THEN IF size > 0
             THEN [form |-> "Struct", size |-> size,
                   offsets |-> SelectSeq(<< 1, 2, 3, 4, 5 >>,
                                         LAMBDA o : Bit(ptr_bitmap, o - 1) = 1)]
             ELSE [form |-> "Struct", size |-> len * 2, offsets |-> << >>]
        ELSE [form |-> "Unknown", tag |-> tag, len |-> len]

-----------------------------------------------------------------------------
(* process_transitive *)

\* a copy that stops one word short
memcpy_short(m, dst, src, nwords) ==
    [a \in DOMAIN m |->
        IF a >= dst /\ a < dst + (nwords - 1) * WORDSIZE THEN m[src + (a - dst)] ELSE m[a]]

memcpy(m, dst, src, nwords) ==
    [a \in DOMAIN m |->
        IF a >= dst /\ a < dst + nwords * WORDSIZE THEN m[src + (a - dst)] ELSE m[a]]

\* a copy that leaves the old header as it was: no forwarding address
process_transitive_no_install(obj_addr, m, fr) ==
    LET same == [val |-> obj_addr, mem |-> m, free |-> fr, out |-> << >>]
    IN  IF obj_addr = 0 THEN same
        ELSE IF obj_addr < from_space \/ obj_addr >= from_space + HalfBytes THEN same
        ELSE
          LET header_ptr == obj_addr - WORDSIZE
              header == m[header_ptr]
              old_rel == (obj_addr - from_space) \div WORDSIZE
              payload_words == get_payload_words(header)
              dest_obj_ptr == fr + WORDSIZE
              copy_size_words == 1 + payload_words
          IN  [val |-> dest_obj_ptr,
               mem |-> memcpy(m, fr, header_ptr, copy_size_words),
               free |-> fr + copy_size_words * WORDSIZE,
               out |-> << Ev("copy", old_rel, header),
                          Ev("moving", old_rel, (dest_obj_ptr - to_space) \div WORDSIZE) >>]

\* a forward that replaces a value outside from-space by nil
process_transitive_clears_foreign(obj_addr, m, fr) ==
    LET same == [val |-> obj_addr, mem |-> m, free |-> fr, out |-> << >>]
    IN  IF obj_addr = 0 THEN same
        ELSE IF obj_addr < from_space \/ obj_addr >= from_space + HalfBytes
        THEN [same EXCEPT !.val = 0]
        ELSE
          LET header_ptr == obj_addr - WORDSIZE
              header == m[header_ptr]
              old_rel == (obj_addr - from_space) \div WORDSIZE
          IN  IF is_forwarding_pointer(header)
              THEN [val |-> header, mem |-> m, free |-> fr,
                    out |-> << Ev("copy_forwarded", old_rel, 0),
                               Ev("forwarded", old_rel, (header - to_space) \div WORDSIZE) >>]
              ELSE
                LET payload_words == get_payload_words(header)
                    dest_obj_ptr == fr + WORDSIZE
                    copy_size_words == 1 + payload_words
                    copied == memcpy(m, fr, header_ptr, copy_size_words)
                IN  [val |-> dest_obj_ptr,
                     mem |-> [copied EXCEPT ![header_ptr] = dest_obj_ptr],
                     free |-> fr + copy_size_words * WORDSIZE,
                     out |-> << Ev("copy", old_rel, header),
                                Ev("moving", old_rel, (dest_obj_ptr - to_space) \div WORDSIZE) >>]

\* obj_addr is *slot_ptr; the result is the new *slot_ptr, the heap, free_ptr
\* and the lines logged
process_transitive(obj_addr, m, fr) ==
    LET same == [val |-> obj_addr, mem |-> m, free |-> fr, out |-> << >>]
    IN  IF obj_addr = 0 THEN same
        ELSE IF obj_addr < from_space \/ obj_addr >= from_space + HalfBytes THEN same
        ELSE
          LET header_ptr == obj_addr - WORDSIZE
              header == m[header_ptr]
              old_rel == (obj_addr - from_space) \div WORDSIZE
          IN  IF is_forwarding_pointer(header)
              THEN [val |-> header, mem |-> m, free |-> fr,
                    out |-> << Ev("copy_forwarded", old_rel, 0),
                               Ev("forwarded", old_rel, (header - to_space) \div WORDSIZE) >>]
              ELSE
                LET payload_words == get_payload_words(header)
                    dest_obj_ptr == fr + WORDSIZE
                    copy_size_words == 1 + payload_words
                    copied == memcpy(m, fr, header_ptr, copy_size_words)
                IN  [val |-> dest_obj_ptr,
                     mem |-> [copied EXCEPT ![header_ptr] = dest_obj_ptr],
                     free |-> fr + copy_size_words * WORDSIZE,
                     out |-> << Ev("copy", old_rel, header),
                                Ev("moving", old_rel, (dest_obj_ptr - to_space) \div WORDSIZE) >>]

-----------------------------------------------------------------------------
(* The initial state: the process has entered main, whose frame is set up, *)
(* and has not called _cflat_init_gc.                                      *)

MainFrame == StackTop - 2 * WORDSIZE

Init ==
    /\ pc = "start"
    /\ heap_size = 0
    /\ from_space = 0
    /\ to_space = 0
    /\ bump_ptr = 0
    /\ base_frame_ptr = 0
    /\ mem = << >>
    /\ stack = [a \in StackAddrs |->
                  IF a = MainFrame THEN StackTop
                  ELSE IF a = MainFrame - WORDSIZE THEN FuncRoots[1]
                  ELSE 0]
    /\ cur_frame = MainFrame
    /\ num_words = 0
    /\ result = 0
    /\ free_ptr = 0
    /\ scan_ptr = 0
    /\ frame = 0
    /\ frame_idx = 0
    /\ i = 0
    /\ out = << >>
    /\ exit_status = -1
    /\ pre = NoPre
    /\ nalloc = 0

gc_locals == << free_ptr, scan_ptr, frame, frame_idx, i >>
globals == << heap_size, from_space, to_space, bump_ptr, base_frame_ptr, nalloc >>

\* a panic that reports failure to the shell
Panic_failure_status(o, message) ==
    /\ out' = Append(o, Ev(message, 0, 0))
    /\ exit_status' = 1
    /\ pc' = "exited"

\* _cflat_panic
Panic(o, message) ==
    /\ out' = Append(o, Ev(message, 0, 0))
    /\ exit_status' = 0
    /\ pc' = "exited"

-----------------------------------------------------------------------------
(* _cflat_init_gc *)

AllDigits(heap_size_str) == \A k \in 1..Len(heap_size_str) : isdigit(heap_size_str[k])

ParsedHeapSize(heap_size_str) ==
    IF AllDigits(heap_size_str) THEN stoi(heap_size_str) ELSE heap_size

\* stoi throws, nothing catches the exception: std::terminate calls abort
InitAborts(heap_size_str) ==
    /\ pc = "start"
    /\ heap_size_str # << >>
    /\ AllDigits(heap_size_str)
    /\ stoi_throws(heap_size_str)
    /\ out' = Append(out, Ev("terminate called after throwing an instance of 'std::out_of_range'", 0, 0))
    /\ exit_status' = AbortStatus
    /\ pc' = "exited"
    /\ base_frame_ptr' = stack[cur_frame]
    /\ UNCHANGED << heap_size, from_space, to_space, bump_ptr, mem, stack,
                    cur_frame, num_words, result, gc_locals, pre, nalloc >>

InitPanicsUnset ==
    /\ pc = "start"
    /\ Panic(out, "The CFLAT_HEAP_WORDS environment variable must be set to the desired size of the heap (in words).")
    /\ base_frame_ptr' = stack[cur_frame]
    /\ UNCHANGED << heap_size, from_space, to_space, bump_ptr, mem, stack,
                    cur_frame, num_words, result, gc_locals, pre, nalloc >>

InitPanicsBad(heap_size_str) ==
    /\ pc = "start"
    /\ heap_size_str # << >>
    /\ ~ (AllDigits(heap_size_str) /\ stoi_throws(heap_size_str))
    /\ LET hs == ParsedHeapSize(heap_size_str)
       IN  /\ hs = 0 \/ hs % 2 = 1
           /\ heap_size' = hs
    /\ Panic(out, "CFLAT_HEAP_WORDS must contain a positive even number with no trailing spaces.")
    /\ base_frame_ptr' = stack[cur_frame]
    /\ UNCHANGED << from_space, to_space, bump_ptr, mem, stack,
                    cur_frame, num_words, result, gc_locals, pre, nalloc >>

InitGC(heap_size_str) ==
    /\ pc = "start"
    /\ heap_size_str # << >>
    /\ ~ (AllDigits(heap_size_str) /\ stoi_throws(heap_size_str))
    /\ LET hs == ParsedHeapSize(heap_size_str)
       IN  /\ ~ (hs = 0 \/ hs % 2 = 1)
           /\ heap_size' = hs
           /\ from_space' = MallocBase
           /\ to_space' = MallocBase + (hs \div 2) * WORDSIZE
           /\ bump_ptr' = MallocBase
           /\ mem' = [a \in { MallocBase + WORDSIZE * k : k \in 0..(hs - 1) } |-> Junk]
           /\ out' = << Ev("_cflat_init_gc: allocated heap", hs, 0) >>
    /\ base_frame_ptr' = stack[cur_frame]
    /\ pc' = "run"
    /\ UNCHANGED << stack, cur_frame, num_words, result, gc_locals,
                    exit_status, pre, nalloc >>

-----------------------------------------------------------------------------
(* _cflat_alloc *)

\* a space test against the end of the whole buffer
has_space_whole_buffer(n) ==
    bump_ptr + n * WORDSIZE <= MallocBase + heap_size * WORDSIZE

\* a space test that admits one word too many
has_space_one_past(n) ==
    bump_ptr + n * WORDSIZE <= from_space + HalfBytes + WORDSIZE

\* a space test that refuses a request filling the half exactly
has_space_strict(n) == bump_ptr + n * WORDSIZE < from_space + HalfBytes

has_space(n) == bump_ptr + n * WORDSIZE <= from_space + HalfBytes

\* a zeroing that leaves the last word of the block as it was
zero_words_short(m, start, n) ==
    [a \in DOMAIN m |-> IF a >= start /\ a < start + (n - 1) * WORDSIZE THEN 0 ELSE m[a]]

\* a zeroing that starts at the base of the active half
zero_words_from_base(m, start, n) ==
    [a \in DOMAIN m |-> IF a >= from_space /\ a < start + n * WORDSIZE THEN 0 ELSE m[a]]

\* _cflat_zero_words
zero_words(m, start, n) ==
    [a \in DOMAIN m |-> IF a >= start /\ a < start + n * WORDSIZE THEN 0 ELSE m[a]]

\* an allocator that keeps a header word of its own in front of the n words
Allocate_own_header(n) ==
    /\ result' = bump_ptr + WORDSIZE
    /\ bump_ptr' = bump_ptr + (n + 1) * WORDSIZE
    /\ mem' = zero_words(mem, bump_ptr + WORDSIZE, n)
    /\ pc' = "ret"

\* bump, zero, return
Allocate(n) ==
    /\ result' = bump_ptr
    /\ bump_ptr' = bump_ptr + n * WORDSIZE
    /\ mem' = zero_words(mem, bump_ptr, n)
    /\ pc' = "ret"

\* the first attempt fits: no collection
AllocFits(n) ==
    /\ pc = "run"
    /\ has_space(n)
    /\ num_words' = n
    /\ Allocate(n)
    /\ out' = << Ev("attempting", n, 0), Ev("successful", 0, 0) >>
    /\ nalloc < MaxAllocs
    /\ nalloc' = nalloc + 1
    /\ UNCHANGED << heap_size, from_space, to_space, base_frame_ptr, stack,
                    cur_frame, gc_locals, exit_status, pre >>

\* the first attempt does not fit: gc_collect(__builtin_frame_address(1)) starts
AllocTriggers(n) ==
    /\ pc = "run"
    /\ ~ has_space(n)
    /\ num_words' = n
    /\ out' = << Ev("attempting", n, 0), Ev("triggering collection", 0, 0) >>
    /\ free_ptr' = to_space
    /\ scan_ptr' = to_space
    /\ frame' = cur_frame
    /\ frame_idx' = 0
    /\ i' = 0
    /\ pre' = [stack |-> stack, mem |-> mem, from |-> from_space, to |-> to_space,
               bump |-> bump_ptr, top |-> cur_frame]
    /\ nalloc < MaxAllocs
    /\ nalloc' = nalloc + 1
    /\ pc' = "frame"
    /\ UNCHANGED << heap_size, from_space, to_space, bump_ptr, base_frame_ptr,
                    mem, stack, cur_frame, result, exit_status >>

\* the second attempt, after the collection, fits
RetryFits ==
    /\ pc = "retry"
    /\ has_space(num_words)
    /\ Allocate(num_words)
    /\ out' = out \o << Ev("second attempt", num_words, 0), Ev("successful", 0, 0) >>
    /\ UNCHANGED << heap_size, from_space, to_space, base_frame_ptr, stack,
                    cur_frame, num_words, gc_locals, exit_status, pre, nalloc >>

\* the second attempt does not fit: out of memory
RetryPanics ==
    /\ pc = "retry"
    /\ ~ has_space(num_words)
    /\ Panic(Append(out, Ev("second attempt", num_words, 0)), "out of memory")
    /\ UNCHANGED << globals, mem, stack, cur_frame, num_words, result,
                    gc_locals, pre >>

-----------------------------------------------------------------------------
(* gc_collect *)

\* while (frame < base_frame_ptr): enter the frame
GcFrame ==
    /\ pc = "frame"
    /\ frame < base_frame_ptr
    /\ out' = Append(out, Ev("frame", frame_idx, stack[frame - WORDSIZE]))
    /\ i' = 0
    /\ pc' = "roots"
    /\ UNCHANGED << globals, mem, stack, cur_frame, num_words, result,
                    free_ptr, scan_ptr, frame, frame_idx, exit_status, pre >>

\* a root walk that starts at the count word
root_slot_from_count(fr, k) == fr - WORDSIZE - k * WORDSIZE

\* root k of the frame fr: frame - 2 - i
root_slot(fr, k) == fr - 2 * WORDSIZE - k * WORDSIZE

\* for (i < gc_root_count): process_transitive(frame - 2 - i, free_ptr)
GcRoot ==
    /\ pc = "roots"
    /\ i < stack[frame - WORDSIZE]
    /\ LET slot == root_slot(frame, i)
           r == process_transitive(stack[slot], mem, free_ptr)
       IN  /\ stack' = [stack EXCEPT ![slot] = r.val]
           /\ mem' = r.mem
           /\ free_ptr' = r.free
           /\ out' = out \o << Ev("pointer offset", i, 0) >> \o r.out
    /\ i' = i + 1
    /\ UNCHANGED << globals, cur_frame, num_words, result, scan_ptr, frame,
                    frame_idx, pc, exit_status, pre >>

\* a walk that numbers every frame 0
GcNextFrame_same_index ==
    /\ pc = "roots"
    /\ ~ (i < stack[frame - WORDSIZE])
    /\ frame' = stack[frame]
    /\ pc' = "frame"
    /\ UNCHANGED << globals, mem, stack, cur_frame, num_words, result,
                    free_ptr, scan_ptr, frame_idx, i, out, exit_status, pre >>

\* frame = *frame; frame_idx++
GcNextFrame ==
    /\ pc = "roots"
    /\ ~ (i < stack[frame - WORDSIZE])
    /\ frame' = stack[frame]
    /\ frame_idx' = frame_idx + 1
    /\ pc' = "frame"
    /\ UNCHANGED << globals, mem, stack, cur_frame, num_words, result,
                    free_ptr, scan_ptr, i, out, exit_status, pre >>

\* a scan that starts while frames are still to be walked
GcStartScan_before_walk_ends ==
    /\ pc = "frame"
    /\ out' = Append(out, Ev("starting scan", 0, 0))
    /\ pc' = "scan"
    /\ UNCHANGED << globals, mem, stack, cur_frame, num_words, result,
                    gc_locals, exit_status, pre >>

\* the frame walk is over
GcStartScan ==
    /\ pc = "frame"
    /\ ~ (frame < base_frame_ptr)
    /\ out' = Append(out, Ev("starting scan", 0, 0))
    /\ pc' = "scan"
    /\ UNCHANGED << globals, mem, stack, cur_frame, num_words, result,
                    gc_locals, exit_status, pre >>

\* while (scan_ptr < free_ptr): read the header of the next copied object
GcScanHeader ==
    /\ pc = "scan"
    /\ scan_ptr < free_ptr
    /\ out' = Append(out, Ev("scanning header", mem[scan_ptr], 0))
    /\ i' = 0
    /\ pc' = "fields"
    /\ UNCHANGED << globals, mem, stack, cur_frame, num_words, result,
                    free_ptr, scan_ptr, frame, frame_idx, exit_status, pre >>

\* the condition of the for loop that runs over the fields of the object
\* with this header
FieldLoopRuns(header, k) ==
    LET payload_words == get_payload_words(header)
        tag == header % 8
        len == Shr(header, 3)
        ptr_bitmap == Low5(len)
    IN  IF tag = TAG_ARRAY_PTRS THEN k < payload_words
        ELSE IF tag = TAG_STRUCT_PTRS
             THEN ptr_bitmap > 0 /\ k < ptr_bitmap + 1 /\ k < payload_words
        ELSE IF tag = TAG_STRUCT_ATOMIC
             THEN Shr(len, 5) > 0 /\ ptr_bitmap > 0 /\ k < payload_words /\ k < 5
        ELSE FALSE

\* a bitmap read without the shift: bit k for offset k
FieldForwarded_unshifted(header, k) ==
    LET payload_words == get_payload_words(header)
        tag == header % 8
        ptr_bitmap == Low5(Shr(header, 3))
    IN  IF tag = TAG_STRUCT_ATOMIC
        THEN IF k < payload_words - 1 /\ Bit(ptr_bitmap, k) = 1 THEN k ELSE -1
        ELSE k

\* the field the k-th iteration forwards: its payload offset, or -1 when the
\* iteration forwards nothing
FieldForwarded(header, k) ==
    LET payload_words == get_payload_words(header)
        tag == header % 8
        ptr_bitmap == Low5(Shr(header, 3))
    IN  IF tag = TAG_STRUCT_ATOMIC
        THEN IF k < payload_words - 1 /\ Bit(ptr_bitmap, k) = 1 THEN k + 1 ELSE -1
        ELSE k

\* one iteration of the for loop over the fields
GcField ==
    /\ pc = "fields"
    /\ FieldLoopRuns(mem[scan_ptr], i)
    /\ LET off == FieldForwarded(mem[scan_ptr], i)
           slot == scan_ptr + WORDSIZE + off * WORDSIZE
       IN  IF off < 0
           THEN UNCHANGED << mem, free_ptr, out >>
           ELSE LET r == process_transitive(mem[slot], mem, free_ptr)
                IN  /\ mem' = [r.mem EXCEPT ![slot] = r.val]
                    /\ free_ptr' = r.free
                    /\ out' = out \o r.out
    /\ i' = i + 1
    /\ UNCHANGED << globals, stack, cur_frame, num_words, result, scan_ptr,
                    frame, frame_idx, pc, exit_status, pre >>

\* scan_ptr += 1 + payload_words
GcAdvance ==
    /\ pc = "fields"
    /\ ~ FieldLoopRuns(mem[scan_ptr], i)
    /\ LET size == 1 + get_payload_words(mem[scan_ptr])
       IN  /\ out' = Append(out, Ev("incrementing scanning ptr", size, 0))
           /\ scan_ptr' = scan_ptr + size * WORDSIZE
    /\ pc' = "scan"
    /\ UNCHANGED << globals, mem, stack, cur_frame, num_words, result,
                    free_ptr, frame, frame_idx, i, exit_status, pre >>

\* a swap that waits for scan_ptr to pass free_ptr
GcSwap_past_free ==
    /\ pc = "scan"
    /\ scan_ptr > free_ptr
    /\ LET live_words == (free_ptr - to_space) \div WORDSIZE
       IN  /\ out' = Append(out, Ev("swapping", live_words, 0))
           /\ from_space' = to_space
           /\ to_space' = from_space
           /\ bump_ptr' = to_space + live_words * WORDSIZE
    /\ pc' = "retry"
    /\ UNCHANGED << heap_size, base_frame_ptr, mem, stack, cur_frame, num_words,
                    result, gc_locals, exit_status, pre, nalloc >>

\* an end of collection that leaves from_space and to_space as they were
GcSwap_no_swap ==
    /\ pc = "scan"
    /\ ~ (scan_ptr < free_ptr)
    /\ LET live_words == (free_ptr - to_space) \div WORDSIZE
       IN  /\ out' = Append(out, Ev("swapping", live_words, 0))
           /\ bump_ptr' = to_space + live_words * WORDSIZE
    /\ pc' = "retry"
    /\ UNCHANGED << heap_size, from_space, to_space, base_frame_ptr, mem, stack,
                    cur_frame, num_words, result, gc_locals, exit_status, pre, nalloc >>

\* the scan is over: swap the spaces and reset bump_ptr
GcSwap ==
    /\ pc = "scan"
    /\ ~ (scan_ptr < free_ptr)
    /\ LET live_words == (free_ptr - to_space) \div WORDSIZE
       IN  /\ out' = Append(out, Ev("swapping", live_words, 0))
           /\ from_space' = to_space
           /\ to_space' = from_space
           /\ bump_ptr' = to_space + live_words * WORDSIZE
    /\ pc' = "retry"
    /\ UNCHANGED << heap_size, base_frame_ptr, mem, stack, cur_frame, num_words,
                    result, gc_locals, exit_status, pre, nalloc >>

-----------------------------------------------------------------------------
(* The compiled program.  A frame holds the saved frame base of its caller *)
(* at offset 0, its root count at offset -1 and its roots at offsets       *)
(* -2, -3, ...; the program calls _cflat_alloc with the size of the block  *)
(* header included, writes the header into the first word of the block and *)
(* keeps the address of the word after it.                                 *)

RootCount(fp) == stack[fp - WORDSIZE]
RootSlot(fp, k) == fp - 2 * WORDSIZE - k * WORDSIZE
Roots(fp) == { RootSlot(fp, k) : k \in 0..(RootCount(fp) - 1) }
RootValues(fp) == { stack[a] : a \in Roots(fp) }

RECURSIVE Depth(_)
Depth(fp) == IF fp >= StackTop THEN 0 ELSE 1 + Depth(stack[fp])

prog_unchanged ==
    UNCHANGED << globals, num_words, result, gc_locals, exit_status >>

\* the block sizes the program asks for: header and payload
Requests == { 1 + get_payload_words(h) : h \in Headers }

\* the program initialises the fresh block [at, ...): the header, and IntVal
\* in each non-pointer field
InitObject(m, at, h) ==
    [a \in DOMAIN m |->
        IF a = at THEN h
        ELSE LET off == ((a - at) \div WORDSIZE) - 1
             IN  IF off >= 0 /\ off < get_payload_words(h) /\ off \notin PtrFieldOffsets(h)
                 THEN IntVal ELSE m[a]]

\* after _cflat_alloc returns: write the header, keep the pointer in a root
StoreNew(h, slot) ==
    /\ pc = "ret"
    /\ h \in Headers
    /\ 1 + get_payload_words(h) = num_words
    /\ get_payload_words(h) >= 1
    /\ slot \in Roots(cur_frame)
    /\ mem' = InitObject(mem, result, h)
    /\ stack' = [stack EXCEPT ![slot] = result + WORDSIZE]
    /\ out' = << >>
    /\ pre' = NoPre
    /\ pc' = "run"
    /\ UNCHANGED cur_frame
    /\ prog_unchanged

\* after _cflat_alloc returns: write the header, drop the pointer
DropNew(h) ==
    /\ pc = "ret"
    /\ h \in Headers
    /\ 1 + get_payload_words(h) = num_words
    /\ get_payload_words(h) = 0 \/ RootCount(cur_frame) = 0
    /\ mem' = InitObject(mem, result, h)
    /\ out' = << >>
    /\ pre' = NoPre
    /\ pc' = "run"
    /\ UNCHANGED << stack, cur_frame >>
    /\ prog_unchanged

\* a root is assigned another root of the frame
CopyRoot(src, dst) ==
    /\ pc = "run"
    /\ src \in Roots(cur_frame)
    /\ dst \in Roots(cur_frame)
    /\ stack[src] # stack[dst]
    /\ stack[src] # 0
    /\ stack' = [stack EXCEPT ![dst] = stack[src]]
    /\ UNCHANGED << mem, cur_frame, pc, out, pre >>
    /\ prog_unchanged

\* a root is assigned nil
ClearRoot(slot) ==
    /\ pc = "run"
    /\ slot \in Roots(cur_frame)
    /\ stack[slot] # 0
    /\ stack' = [stack EXCEPT ![slot] = 0]
    /\ UNCHANGED << mem, cur_frame, pc, out, pre >>
    /\ prog_unchanged

\* a pointer field of the object a root refers to is assigned a root or nil
StoreField(slot, off, v) ==
    /\ pc = "run"
    /\ slot \in Roots(cur_frame)
    /\ stack[slot] # 0
    /\ LET obj == stack[slot]
           h == mem[obj - WORDSIZE]
       IN  /\ off \in PtrFieldOffsets(h)
           /\ off < get_payload_words(h)
           /\ v \in RootValues(cur_frame) \cup {0}
           /\ mem[obj + off * WORDSIZE] # v
           /\ mem' = [mem EXCEPT ![obj + off * WORDSIZE] = v]
    /\ UNCHANGED << stack, cur_frame, pc, out, pre >>
    /\ prog_unchanged

\* a call: the callee's frame is pushed, its roots nil but for the argument
Call(f, arg) ==
    /\ pc = "run"
    /\ Depth(cur_frame) < MaxDepth
    /\ f \in 2..Len(FuncRoots)
    /\ arg \in RootValues(cur_frame) \cup {0}
    /\ FuncRoots[f] = 0 => arg = 0
    /\ LET fp == cur_frame - (RootCount(cur_frame) + 3) * WORDSIZE
       IN  /\ stack' = [a \in StackAddrs |->
                          IF a = fp THEN cur_frame
                          ELSE IF a = fp - WORDSIZE THEN FuncRoots[f]
                          ELSE IF a = fp - 2 * WORDSIZE /\ FuncRoots[f] > 0 THEN arg
                          ELSE IF a < fp THEN 0
                          ELSE stack[a]]
           /\ cur_frame' = fp
    /\ UNCHANGED << mem, pc, out, pre >>
    /\ prog_unchanged

\* a return: the frame is popped
Return ==
    /\ pc = "run"
    /\ Depth(cur_frame) > 1
    /\ stack' = [a \in StackAddrs |-> IF a <= cur_frame + WORDSIZE THEN 0 ELSE stack[a]]
    /\ cur_frame' = stack[cur_frame]
    /\ UNCHANGED << mem, pc, out, pre >>
    /\ prog_unchanged

-----------------------------------------------------------------------------

Next ==
    \/ InitPanicsUnset
    \/ \E e \in HeapEnvs : InitPanicsBad(e)
    \/ \E e \in HeapEnvs : InitAborts(e)
    \/ \E e \in HeapEnvs : InitGC(e)
    \/ \E n \in Requests : AllocFits(n)
    \/ \E n \in Requests : AllocTriggers(n)
    \/ RetryFits
    \/ RetryPanics
    \/ GcFrame
    \/ GcRoot
    \/ GcNextFrame
    \/ GcStartScan
    \/ GcScanHeader
    \/ GcField
    \/ GcAdvance
    \/ GcSwap
    \/ \E h \in Headers, slot \in Roots(cur_frame) : StoreNew(h, slot)
    \/ \E h \in Headers : DropNew(h)
    \/ \E src, dst \in Roots(cur_frame) : CopyRoot(src, dst)
    \/ \E slot \in Roots(cur_frame) : ClearRoot(slot)
    \/ \E slot \in Roots(cur_frame), off \in 0..(HalfWords - 1),
          v \in RootValues(cur_frame) \cup {0} : StoreField(slot, off, v)
    \/ \E f \in 2..Len(FuncRoots), arg \in RootValues(cur_frame) \cup {0} : Call(f, arg)
    \/ Return

Spec == Init /\ [][Next]_vars

\* gc_collect is straight-line code of a single thread: once entered, it
\* keeps taking its next step
Collect ==
    \/ GcFrame
    \/ GcRoot
    \/ GcNextFrame
    \/ GcStartScan
    \/ GcScanHeader
    \/ GcField
    \/ GcAdvance
    \/ GcSwap

FairSpec == Spec /\ WF_vars(Collect)

\* gc_collect called a second time with the same top frame, right after it
\* returned: nothing was allocated and no root or heap word was written
ForceCollect ==
    /\ pc = "retry"
    /\ Cardinality({ n \in DOMAIN out : out[n].k = "swapping" }) = 1
    /\ out' = Append(out, Ev("forced collection", 0, 0))
    /\ free_ptr' = to_space
    /\ scan_ptr' = to_space
    /\ frame' = cur_frame
    /\ frame_idx' = 0
    /\ i' = 0
    /\ pre' = [stack |-> stack, mem |-> mem, from |-> from_space, to |-> to_space,
               bump |-> bump_ptr, top |-> cur_frame]
    /\ pc' = "frame"
    /\ UNCHANGED << globals, mem, stack, cur_frame, num_words, result, exit_status >>

ForcedNext == Next \/ ForceCollect

ForcedSpec == Init /\ [][ForcedNext]_vars

\* Calls that break the contract of the runtime.  Both entry points open
\* with an assert on the globals; a failed assert writes its message to
\* standard error and calls abort.
AssertFails(message) ==
    /\ out' = Append(out, Ev(message, 0, 0))
    /\ exit_status' = AbortStatus
    /\ pc' = "exited"

\* _cflat_alloc called before _cflat_init_gc
AllocBeforeInit(n) ==
    /\ pc = "start"
    /\ ~ (from_space # 0 /\ to_space # 0 /\ bump_ptr # 0 /\ base_frame_ptr # 0)
    /\ num_words' = n
    /\ AssertFails("Assertion failed: _cflat_alloc should only be called after _cflat_init_gc")
    /\ UNCHANGED << globals, mem, stack, cur_frame, result, gc_locals, pre >>

\* _cflat_init_gc called a second time
InitAgain ==
    /\ pc = "run"
    /\ ~ (from_space = 0 /\ to_space = 0 /\ bump_ptr = 0 /\ base_frame_ptr = 0)
    /\ AssertFails("Assertion failed: _cflat_init_gc should be called exactly once, at the beginning of main")
    /\ UNCHANGED << globals, mem, stack, cur_frame, num_words, result, gc_locals, pre >>

MisuseNext ==
    \/ Next
    \/ \E n \in Requests : AllocBeforeInit(n)
    \/ InitAgain

MisuseSpec == Init /\ [][MisuseNext]_vars

\* A program over a larger heap that writes any header the runtime decodes.
\* main has allocated an object A with header h and an atomic array B after
\* it, keeps A in its first root and B, or nil, in its second, and has
\* stored in each payload word of A nil, an integer, A or B.  The next
\* request, made by main or by the function without roots that main has
\* called, does not fit.
WideHalfWords == 10

WideHeaders ==
    { ArrayHeader(2, TRUE), ArrayHeader(2, FALSE), AtomicStructHeader(1),
      BitmapStructHeader(2, 1), BitmapStructHeader(2, 2), BitmapStructHeader(3, 0),
      BitmapStructHeader(3, 3), LeadingStructHeader(1, 0), LeadingStructHeader(2, 1),
      LeadingStructHeader(2, 3), LeadingStructHeader(6, 5) }

WideRequests == { WideHalfWords - 3, WideHalfWords }

\* the frame of a function called by main
CalleeFrame == MainFrame - (FuncRoots[1] + 3) * WORDSIZE

\* the state of that program when malloc returned base for the heap buffer
WideInitAt(base) ==
    \E h \in WideHeaders :
      LET W == get_payload_words(h)
          A == base + WORDSIZE
          Bh == base + (1 + W) * WORDSIZE
          B == Bh + WORDSIZE
      IN  \E f \in [0..(W - 1) -> { 0, IntVal, A, B }], r1 \in { 0, B },
             top \in { MainFrame, CalleeFrame } :
            /\ pc = "run"
            /\ heap_size = 2 * WideHalfWords
            /\ from_space = base
            /\ to_space = base + WideHalfWords * WORDSIZE
            /\ bump_ptr = B + WORDSIZE
            /\ base_frame_ptr = StackTop
            /\ mem = [a \in { base + WORDSIZE * k : k \in 0..(2 * WideHalfWords - 1) } |->
                        IF a = base THEN h
                        ELSE IF a < Bh THEN f[(a - A) \div WORDSIZE]
                        ELSE IF a = Bh THEN ArrayHeader(1, FALSE)
                        ELSE IF a = B THEN IntVal
                        ELSE Junk]
            /\ stack = [a \in StackAddrs |->
                          IF a = MainFrame THEN StackTop
                          ELSE IF a = MainFrame - WORDSIZE THEN FuncRoots[1]
                          ELSE IF a = root_slot(MainFrame, 0) THEN A
                          ELSE IF a = root_slot(MainFrame, 1) THEN r1
                          ELSE IF a = CalleeFrame /\ top = CalleeFrame THEN MainFrame
                          ELSE IF a = CalleeFrame - WORDSIZE /\ top = CalleeFrame
                               THEN FuncRoots[3]
                          ELSE 0]
            /\ cur_frame = top
            /\ num_words = 2
            /\ result = Bh
            /\ free_ptr = 0
            /\ scan_ptr = 0
            /\ frame = 0
            /\ frame_idx = 0
            /\ i = 0
            /\ out = << >>
            /\ exit_status = -1
            /\ pre = NoPre
            /\ nalloc = 2

WideInit == WideInitAt(MallocBase)

WideNext ==
    \/ \E n \in WideRequests : AllocTriggers(n)
    \/ Collect
    \/ RetryFits
    \/ RetryPanics

WideSpec == WideInit /\ [][WideNext]_vars

\* The same program run in two processes.  malloc places the heap buffer
\* of each process where it likes; the second process gets another address
\* than the first, makes the same allocations, writes the same headers and
\* stores the same references, and its log is kept after the log of the
\* first.  Addresses are scaled with the heap: a buffer of 20 words at 432
\* stands for a buffer that lies below 16 times its own size in bytes, where
\* the value of a struct header that fits the heap can be an address of
\* to-space.
LowBase == 432
HeapBases == { MallocBase, LowBase }

TwinInit == \E base \in HeapBases : WideInitAt(base)

RunDone == pc \in { "ret", "exited" }

\* the value v of the first process, heap at b1, in the second, heap at b2
Moved(v, b1, b2) ==
    IF v >= b1 /\ v < b1 + heap_size * WORDSIZE THEN v - b1 + b2 ELSE v

\* the second process, at its call of _cflat_alloc that does not fit
Rerun(b2) ==
    /\ RunDone
    /\ \A n \in DOMAIN out : out[n].k # "second run"
    /\ b2 # pre.from
    /\ LET b1 == pre.from
           Bh == b1 + (1 + get_payload_words(pre.mem[b1])) * WORDSIZE
           m2 == [a \in { b2 + WORDSIZE * k : k \in 0..(heap_size - 1) } |->
                    LET x == a - b2 + b1
                    IN  IF x = b1 \/ x = Bh THEN pre.mem[x] ELSE Moved(pre.mem[x], b1, b2)]
           s2 == [a \in StackAddrs |-> Moved(pre.stack[a], b1, b2)]
       IN  /\ mem' = m2
           /\ stack' = s2
           /\ from_space' = b2
           /\ to_space' = b2 + HalfBytes
           /\ bump_ptr' = pre.bump - b1 + b2
           /\ free_ptr' = b2 + HalfBytes
           /\ scan_ptr' = b2 + HalfBytes
           /\ pre' = [stack |-> s2, mem |-> m2, from |-> b2, to |-> b2 + HalfBytes,
                      bump |-> pre.bump - b1 + b2, top |-> cur_frame]
    /\ frame' = cur_frame
    /\ frame_idx' = 0
    /\ i' = 0
    /\ result' = 0
    /\ exit_status' = -1
    /\ out' = out \o << Ev("second run", 0, 0), Ev("attempting", num_words, 0),
                         Ev("triggering collection", 0, 0) >>
    /\ pc' = "frame"
    /\ UNCHANGED << heap_size, base_frame_ptr, cur_frame, num_words, nalloc >>

TwinNext ==
    \/ WideNext
    \/ \E b2 \in HeapBases : Rerun(b2)

TwinSpec == TwinInit /\ [][TwinNext]_vars

-----------------------------------------------------------------------------
(* Vocabulary of the properties.  A collection is complete in the state    *)
(* with pc = "retry": the spaces are swapped and the second attempt has    *)
(* not run; pre holds the stack and the heap as they were when it began.   *)

GcPcs == { "frame", "roots", "scan", "fields" }

InSpace(a, base) == a >= base /\ a < base + HalfBytes

Kinds(k) == { n \in DOMAIN out : out[n].k = k }
Count(k) == Cardinality(Kinds(k))

\* the frames the walk visits from top in the stack st, and their root slots
RECURSIVE Frames(_, _)
Frames(st, fp) == IF fp < base_frame_ptr THEN {fp} \cup Frames(st, st[fp]) ELSE { }

RootSlots(st, top) ==
    UNION { { fp - 2 * WORDSIZE - k * WORDSIZE : k \in 0..(st[fp - WORDSIZE] - 1) } :
            fp \in Frames(st, top) }

\* the payload addresses of the objects laid out in [a, end) of the heap m
RECURSIVE Objects(_, _, _)
Objects(m, a, end) ==
    IF a >= end THEN { }
    ELSE {a + WORDSIZE} \cup Objects(m, a + (1 + get_payload_words(m[a])) * WORDSIZE, end)

\* the pointer fields of the object at payload address x: their addresses
PtrFields(m, x) ==
    { x + off * WORDSIZE :
        off \in { o \in PtrFieldOffsets(m[x - WORDSIZE]) : o < get_payload_words(m[x - WORDSIZE]) } }

\* the objects among objs reachable from the set S through pointer fields
RECURSIVE Closure(_, _, _)
Closure(m, objs, S) ==
    LET more == { m[f] : f \in UNION { PtrFields(m, x) : x \in S } } \cap objs
    IN  IF more \subseteq S THEN S ELSE Closure(m, objs, S \cup more)

Reachable(st, top, m, base, end) ==
    LET objs == Objects(m, base, end)
    IN  Closure(m, objs, { st[r] : r \in RootSlots(st, top) } \cap objs)

\* before the collection, and after it
PreObjects == Objects(pre.mem, pre.from, pre.bump)
PreReachable == Reachable(pre.stack, pre.top, pre.mem, pre.from, pre.bump)
PostObjects == Objects(mem, from_space, bump_ptr)
PostReachable == Reachable(stack, pre.top, mem, from_space, bump_ptr)

\* the "---- moving" lines of the collection that name the object at x
MovesOf(x) ==
    { n \in Kinds("moving") : pre.from + out[n].a * WORDSIZE = x }

\* the forwarding address the collection left in the old header of x
Forwarding(x) == mem[x - WORDSIZE]

-----------------------------------------------------------------------------
(* C1: after a completed collection every root slot that held the payload  *)
(* address of a from-space object holds the forwarding address recorded    *)
(* for that object in this collection: the payload address of its single   *)
(* copy in the new active half; no root refers to the old from-space.      *)

C1_RootsForwarded ==
    pc = "retry" =>
      \A r \in RootSlots(pre.stack, pre.top) :
        LET p == pre.stack[r]
        IN  InSpace(p, pre.from) =>
              /\ Cardinality(MovesOf(p)) = 1
              /\ \A n \in MovesOf(p) : stack[r] = pre.to + out[n].b * WORDSIZE
              /\ stack[r] = Forwarding(p)
              /\ InSpace(stack[r], from_space)
              /\ stack[r] \in PostObjects
              /\ mem[stack[r] - WORDSIZE] = pre.mem[p - WORDSIZE]

C1_Witness ==
    /\ pc = "retry"
    /\ Cardinality(Frames(pre.stack, pre.top)) = 2
    /\ \E r1, r2 \in RootSlots(pre.stack, pre.top) :
         /\ r1 # r2
         /\ InSpace(pre.stack[r1], pre.from)
         /\ pre.stack[r1] = pre.stack[r2]
         /\ stack[r1] # pre.stack[r1]
    /\ \E r \in RootSlots(pre.stack, pre.top) : pre.stack[r] = 0

-----------------------------------------------------------------------------
(* The pointer slots of a collection: the root slots of the walked frames, *)
(* <<"root", r, 0>>, and the pointer fields of the objects reachable when  *)
(* it began, <<"field", x, offset>> with x the object's payload address.   *)

PtrSlots ==
    { << "root", r, 0 >> : r \in RootSlots(pre.stack, pre.top) }
    \cup UNION { { << "field", x, f - x >> : f \in PtrFields(pre.mem, x) } : x \in PreReachable }

\* where the object at x is after the collection
NewAddr(x) == IF InSpace(Forwarding(x), from_space) THEN Forwarding(x) ELSE x

Before(s) == IF s[1] = "root" THEN pre.stack[s[2]] ELSE pre.mem[s[2] + s[3]]
After(s) == IF s[1] = "root" THEN stack[s[2]] ELSE mem[NewAddr(s[2]) + s[3]]

RECURSIVE SumWords(_, _)
SumWords(m, S) ==
    IF S = { } THEN 0
    ELSE LET x == CHOOSE y \in S : TRUE
         IN  1 + get_payload_words(m[x - WORDSIZE]) + SumWords(m, S \ {x})

-----------------------------------------------------------------------------
(* C2: pointer equality is preserved by a collection: two pointer slots    *)
(* (roots, or pointer fields of reachable objects) that held the same      *)
(* from-space payload address both hold the same payload address of the    *)
(* new active half after it, and slots that pointed to different objects   *)
(* point to different copies.                                              *)

C2_PointerEquality ==
    pc = "retry" =>
      \A s1, s2 \in PtrSlots :
        (Before(s1) \in PreObjects /\ Before(s2) \in PreObjects) =>
          /\ After(s1) \in PostObjects
          /\ After(s2) \in PostObjects
          /\ (Before(s1) = Before(s2)) <=> (After(s1) = After(s2))

-----------------------------------------------------------------------------
(* C3: after a completed collection every pointer field (tag 6: every      *)
(* element; tag 4: the k+1 leading fields; tag 0 with size > 0: the bitmap *)
(* offsets) of every object reachable from the roots is 0 or the payload   *)
(* address of an object in the new active half.                            *)

C3_FieldsInActiveHalf ==
    pc = "retry" =>
      \A x \in PostReachable : \A f \in PtrFields(mem, x) :
        mem[f] = 0 \/ mem[f] \in PostObjects

-----------------------------------------------------------------------------
(* C4: in a collection the number of objects moved (one "---- moving" line *)
(* each) is the number of distinct objects reachable from the roots        *)
(* through pointer fields: every reachable object is moved, no other is.   *)

C4_MovedAreTheReachable ==
    pc = "retry" =>
      /\ Count("moving") = Cardinality(PreReachable)
      /\ \A x \in PreObjects : (x \in PreReachable) <=> (MovesOf(x) # { })

-----------------------------------------------------------------------------
(* C6: after a completed collection bump - from_base, in the swapped       *)
(* spaces, is the sum over the objects reachable from the roots of         *)
(* 1 + payload words.                                                      *)

C6_LiveWords ==
    pc = "retry" =>
      bump_ptr - from_space = SumWords(pre.mem, PreReachable) * WORDSIZE

-----------------------------------------------------------------------------
(* C5: within one collection each from-space object is copied at most      *)
(* once: once its header holds the forwarding address, every later visit,  *)
(* through a root or a field, takes the forwarded case, which copies no    *)
(* word and leaves free_ptr where it was.                                  *)

\* the words the "---- moving" lines of out account for
RECURSIVE MovedWords(_)
MovedWords(n) ==
    IF n = 0 THEN 0
    ELSE MovedWords(n - 1)
         + (IF out[n].k = "moving" THEN 1 + get_payload_words(out[n - 1].b) ELSE 0)

LastLine(o) == IF o = << >> THEN "" ELSE o[Len(o)].k

CopiedOnce ==
    /\ \A j, k \in Kinds("moving") : out[j].a = out[k].a => j = k
    /\ \A k \in Kinds("forwarded") :
         \E j \in Kinds("moving") : j < k /\ out[j].a = out[k].a /\ out[j].b = out[k].b
    /\ \A k \in Kinds("moving") :
         mem[pre.from + out[k].a * WORDSIZE - WORDSIZE] = pre.to + out[k].b * WORDSIZE
    /\ pc \in GcPcs => free_ptr - to_space = MovedWords(Len(out)) * WORDSIZE

C5_CopiedAtMostOnce ==
    [][ (pc \in GcPcs)
          => /\ CopiedOnce'
             /\ (Len(out') > Len(out) /\ LastLine(out') = "forwarded")
                  => /\ free_ptr' = free_ptr
                     /\ Cardinality({ a \in DOMAIN mem : mem'[a] # mem[a] }) <= 1
                     /\ \A a \in DOMAIN mem :
                          mem'[a] # mem[a] => InSpace(a, to_space) /\ InSpace(mem'[a], to_space) ]_vars

C5_Witness ==
    /\ pc = "fields"
    /\ LastLine(out) = "forwarded"
    /\ Count("forwarded") >= 2
    /\ Count("moving") >= 2

-----------------------------------------------------------------------------
(* C7: on a successful attempt alloc(n) reserves n + 1 words: it returns   *)
(* bump_old + 1 and leaves bump = bump_old + 1 + n.                        *)

Succeeds == pc \in { "run", "retry" } /\ pc' = "ret"

-----------------------------------------------------------------------------
(* C8: once the heap is set up, from_base <= bump <= from_base + H/2, the  *)
(* two bases are the two halves of the buffer, and every block alloc hands *)
(* out lies inside [from_base, bump) of the half active at its return.     *)

C8_BumpInActiveHalf ==
    from_space # 0 =>
      /\ from_space <= bump_ptr
      /\ bump_ptr <= from_space + HalfBytes
      /\ { from_space, to_space } = { MallocBase, MallocBase + HalfBytes }
      /\ pc = "ret" => /\ from_space <= result
                       /\ result + num_words * WORDSIZE <= bump_ptr
                       /\ result < bump_ptr

C8_Witness ==
    /\ pc = "ret"
    /\ from_space = MallocBase + HalfBytes
    /\ bump_ptr = from_space + HalfBytes
    /\ result > from_space

-----------------------------------------------------------------------------
(* C9: a call of alloc runs the collector at most once and attempts the    *)
(* allocation at most twice: the collector runs only when the first        *)
(* attempt does not fit, the retry follows it once, and a retry that does  *)
(* not fit ends the call in panic "out of memory" with exit status 0 and   *)
(* no pointer returned.                                                    *)

C9_OneCollectionTwoAttempts ==
    /\ Count("attempting") <= 1
    /\ Count("triggering collection") <= Count("attempting")
    /\ Count("starting scan") <= Count("triggering collection")
    /\ Count("swapping") <= Count("starting scan")
    /\ Count("second attempt") <= Count("swapping")
    /\ Count("triggering collection") = 1 =>
         pre.bump + num_words * WORDSIZE > pre.from + HalfBytes
    /\ pc \in GcPcs \cup { "retry" } =>
         Count("triggering collection") = 1 /\ Count("second attempt") = 0
    /\ Count("second attempt") = 1 => pc \in { "ret", "exited" }
    /\ (pc = "ret" /\ Count("second attempt") = 1) =>
         /\ result + num_words * WORDSIZE <= from_space + HalfBytes
         /\ LastLine(out) = "successful"
    /\ (pc = "exited" /\ Count("second attempt") = 1) =>
         /\ bump_ptr + num_words * WORDSIZE > from_space + HalfBytes
         /\ LastLine(out) = "out of memory"
         /\ Count("successful") = 0
         /\ exit_status = 0
    /\ pc = "ret" => Count("successful") = 1

C9_Witness ==
    /\ pc = "exited"
    /\ Count("second attempt") = 1
    /\ Count("moving") >= 1

-----------------------------------------------------------------------------
(* C10: a request of one word more than the free words of from-space       *)
(* triggers a collection; and when the live data then fills the half       *)
(* exactly (bump = from_base + H/2) the retry fails and out of memory is   *)
(* reported.                                                               *)

FreeWords == (from_space + HalfBytes - bump_ptr) \div WORDSIZE

C10_OneMoreThanFree ==
    [][ /\ (pc = "run" /\ nalloc' = nalloc + 1 /\ num_words' = FreeWords + 1)
             => pc' = "frame" /\ LastLine(out') = "triggering collection"
        /\ (pc = "retry" /\ bump_ptr = from_space + HalfBytes)
             => /\ pc' = "exited"
                /\ LastLine(out') = "out of memory"
                /\ exit_status' = 0 ]_vars

C10_Witness ==
    /\ pc = "exited"
    /\ pre.bump = pre.from + HalfBytes
    /\ num_words = 1
    /\ bump_ptr = from_space + HalfBytes
    /\ LastLine(out) = "out of memory"

-----------------------------------------------------------------------------
(* C11: a request of exactly the free words of from-space                  *)
(* (from_base + H/2 - bump) succeeds on the first attempt: no collection   *)
(* runs, the spaces stay as they are, and afterwards bump = from_base +    *)
(* H/2.                                                                    *)

C11_ExactFit ==
    [][ (pc = "run" /\ nalloc' = nalloc + 1 /\ num_words' = FreeWords)
          => /\ pc' = "ret"
             /\ LastLine(out') = "successful"
             /\ \A n \in DOMAIN out' : out'[n].k \notin { "triggering collection", "second attempt" }
             /\ result' = bump_ptr
             /\ bump_ptr' = from_space + HalfBytes
             /\ << from_space', to_space' >> = << from_space, to_space >>
             /\ stack' = stack ]_vars

C11_Witness ==
    /\ pc = "ret"
    /\ Count("attempting") = 1
    /\ Count("second attempt") = 0
    /\ num_words >= 2
    /\ result > from_space
    /\ bump_ptr = from_space + HalfBytes
    /\ from_space = MallocBase + HalfBytes

-----------------------------------------------------------------------------
(* C12: every collection terminates, on object graphs with cycles and with *)
(* self-referencing objects as on any other: the scan loop reaches         *)
(* scan = free and the spaces are then swapped.                            *)

C12_CollectionTerminates ==
    /\ (pc \in GcPcs) ~> (pc = "retry")
    /\ [](pc = "retry" => (scan_ptr = free_ptr /\ LastLine(out) = "swapping"))

\* a collection has ended on a heap in which x refers to itself and lies on
\* a cycle through another object y
C12_Witness ==
    /\ pc = "retry"
    /\ \E x, y \in PreReachable :
         /\ x # y
         /\ \E f \in PtrFields(pre.mem, x) : pre.mem[f] = x
         /\ \E f \in PtrFields(pre.mem, x) : pre.mem[f] = y
         /\ \E f \in PtrFields(pre.mem, y) : pre.mem[f] = x
         /\ MovesOf(x) # { }
         /\ MovesOf(y) # { }

-----------------------------------------------------------------------------
(* C13: in every state of a collection to_base <= scan <= free <=          *)
(* to_base + H/2; scan and free never decrease; and no copy writes a word  *)
(* outside to-space: the only other heap word a step writes is the old     *)
(* header of the object it copies, which receives the forwarding address.  *)

CursorsInToSpace ==
    /\ to_space <= scan_ptr
    /\ scan_ptr <= free_ptr
    /\ free_ptr <= to_space + HalfBytes

\* what a step taken inside a collection may do to the cursors and the heap
CollectStepInToSpace ==
    pc \in GcPcs
      => /\ scan_ptr' >= scan_ptr
         /\ free_ptr' >= free_ptr
         /\ \A a \in DOMAIN mem :
              mem'[a] # mem[a]
                => \/ (InSpace(a, to_space) /\ a < free_ptr')
                   \/ (InSpace(a, from_space) /\ a + WORDSIZE \in PreObjects
                         /\ mem'[a] = free_ptr + WORDSIZE)

C13_CursorsBounded ==
    /\ [](pc \in GcPcs => CursorsInToSpace)
    /\ [][CollectStepInToSpace]_vars

\* the scan is under way and the copies fill to-space to its last word
C13_Witness ==
    /\ pc = "fields"
    /\ to_space < scan_ptr
    /\ scan_ptr < free_ptr
    /\ free_ptr = to_space + HalfBytes
    /\ Count("forwarded") >= 1

-----------------------------------------------------------------------------
(* C14: within a collection the events are ordered.  Every root slot of    *)
(* every walked frame is forwarded before the first object is scanned; an  *)
(* object's forwarding address is in its old header before its copy is     *)
(* scanned; the spaces are swapped exactly once, after the scan loop has   *)
(* ended.                                                                  *)

\* the lines of kind k among the first n lines of out
Earlier(k, n) == { j \in Kinds(k) : j < n }

RootsBeforeScan ==
    /\ \A r \in Kinds("pointer offset"), n \in Kinds("scanning header") : r < n
    /\ \A r \in Kinds("frame"), n \in Kinds("starting scan") : r < n
    /\ pc \in { "scan", "fields", "retry" } =>
         /\ Count("starting scan") = 1
         /\ Count("frame") = Cardinality(Frames(pre.stack, pre.top))
         /\ Count("pointer offset") = Cardinality(RootSlots(pre.stack, pre.top))
         /\ \A r \in RootSlots(pre.stack, pre.top) :
              InSpace(pre.stack[r], pre.from) => InSpace(stack[r], pre.to)

ForwardedBeforeScanned ==
    /\ \A n \in Kinds("scanning header") :
         Cardinality(Earlier("moving", n)) > Cardinality(Earlier("scanning header", n))
    /\ pc = "fields" =>
         \E k \in Kinds("moving") :
           /\ pre.to + out[k].b * WORDSIZE = scan_ptr + WORDSIZE
           /\ mem[pre.from + out[k].a * WORDSIZE - WORDSIZE] = scan_ptr + WORDSIZE

SwappedOnceAfterScan ==
    /\ Count("swapping") <= 1
    /\ \A n \in Kinds("swapping") :
         /\ \A j \in DOMAIN out :
              out[j].k \in { "scanning header", "incrementing scanning ptr", "moving",
                             "forwarded", "pointer offset" } => j < n
         /\ Count("scanning header") = Count("moving")
         /\ Count("incrementing scanning ptr") = Count("moving")
    /\ pc \in GcPcs =>
         /\ Count("swapping") = 0
         /\ << from_space, to_space >> = << pre.from, pre.to >>
    /\ pc = "retry" =>
         /\ Count("swapping") = 1
         /\ scan_ptr = free_ptr
         /\ << from_space, to_space >> = << pre.to, pre.from >>

C14_EventsOrdered ==
    /\ RootsBeforeScan
    /\ ForwardedBeforeScanned
    /\ SwappedOnceAfterScan

\* a collection over two frames has ended: objects were moved from roots of
\* both and from a field
C14_Witness ==
    /\ pc = "retry"
    /\ Count("frame") = 2
    /\ Count("pointer offset") = 3
    /\ Count("moving") >= 2
    /\ \E k \in Kinds("moving") : \E n \in Kinds("scanning header") : n < k

-----------------------------------------------------------------------------
(* C15: a collection run on a state in which every allocated object is     *)
(* reachable from the roots yields a live prefix that is word for word the *)
(* old one, heap addresses taken relative to the space base: every object  *)
(* keeps its relative address and its contents.                            *)

\* the payload offsets the scan loop passes to process_transitive for an
\* object with header h
ScannedOffsets(h) ==
    { FieldForwarded(h, k) : k \in { j \in 0..(get_payload_words(h) - 1) : FieldLoopRuns(h, j) } } \ { -1 }

\* the object of the old prefix whose block holds the word at address a
OwnerOf(a) ==
    CHOOSE x \in PreObjects :
      x - WORDSIZE <= a /\ a < x + get_payload_words(pre.mem[x - WORDSIZE]) * WORDSIZE

\* an old from-space address taken to the same offset of the new half
Rebase(v) == IF InSpace(v, pre.from) THEN v - pre.from + pre.to ELSE v

OldPrefix == { a \in DOMAIN pre.mem : pre.from <= a /\ a < pre.bump }

\* the header of the object that holds the old word at a, and the payload
\* offset of that word (-1 for the header itself)
HeaderOf(a) == pre.mem[OwnerOf(a) - WORDSIZE]
OffsetOf(a) == (a - OwnerOf(a)) \div WORDSIZE

\* the word the old word at a becomes when the fields at the payload
\* offsets offs are pointers
Rebased(a, offs) ==
    IF OffsetOf(a) \in offs THEN Rebase(pre.mem[a]) ELSE pre.mem[a]

RECURSIVE MovingUpTo(_)
MovingUpTo(n) ==
    IF n = 0 THEN << >>
    ELSE IF out[n].k = "moving" THEN Append(MovingUpTo(n - 1), n) ELSE MovingUpTo(n - 1)

MovedInOrder ==
    LET mv == MovingUpTo(Len(out))
    IN  /\ { pre.from + out[mv[j]].a * WORDSIZE : j \in DOMAIN mv } = PreObjects
        /\ \A j, k \in DOMAIN mv : j < k => out[mv[j]].a < out[mv[k]].a

-----------------------------------------------------------------------------
(* C16: two consecutive collections with no allocation and no write to a   *)
(* root or to the heap between them report the same live-word count and    *)
(* leave the same bump - from_base.                                        *)

C16_SameLiveWords ==
    (pc = "retry" /\ Count("forced collection") = 1) =>
      /\ Count("swapping") = 2
      /\ \A j, k \in Kinds("swapping") : out[j].a = out[k].a
      /\ bump_ptr - from_space = pre.bump - pre.from
      /\ << from_space, to_space >> = << pre.to, pre.from >>

\* the second of two collections has ended; they moved two objects each
\* and left garbage behind
C16_Witness ==
    /\ pc = "retry"
    /\ Count("forced collection") = 1
    /\ Count("moving") = 4
    /\ Count("forwarded") >= 2
    /\ bump_ptr > from_space

-----------------------------------------------------------------------------
(* C17: wherever the compiled program runs, outside a collection, every    *)
(* object reachable from the roots has its payload address inside the      *)
(* active half and the word before it is a well-formed header, never a     *)
(* forwarding address.                                                     *)

\* the values the program can reach by following pointers from the roots of
\* the stack st through the pointer fields of the heap m
RECURSIVE Followed(_, _)
Followed(m, S) ==
    LET ok == { x \in S : x - WORDSIZE \in DOMAIN m /\ m[x - WORDSIZE] \in Headers }
        more == { m[f] : f \in UNION { PtrFields(m, x) : x \in ok } } \ {0}
    IN  IF more \subseteq S THEN S ELSE Followed(m, S \cup more)

LivePointers == Followed(mem, { stack[r] : r \in RootSlots(stack, cur_frame) } \ {0})

C17_LiveObjectsWellFormed ==
    pc \in { "run", "ret" } =>
      \A x \in LivePointers :
        /\ InSpace(x, from_space)
        /\ x - WORDSIZE >= from_space
        /\ x < bump_ptr
        /\ mem[x - WORDSIZE] \in Headers
        /\ ~ InSpace(mem[x - WORDSIZE], from_space)
        /\ ~ InSpace(mem[x - WORDSIZE], to_space)
        /\ x + get_payload_words(mem[x - WORDSIZE]) * WORDSIZE <= bump_ptr

-----------------------------------------------------------------------------
(* C18: every payload word of a block returned by alloc is zero when alloc *)
(* returns, on the first attempt and on the retry after a collection       *)
(* alike, also when the block reuses memory that held objects or           *)
(* forwarding addresses in an earlier cycle.  (The header slot, the first  *)
(* word of the block, is zero as well.)                                    *)

Block == { result + k * WORDSIZE : k \in 0..(num_words - 1) }

C18_BlockZeroed ==
    pc = "ret" =>
      /\ num_words >= 1
      /\ Block \subseteq DOMAIN mem
      /\ \A a \in Block : mem[a] = 0

\* the retry returned a block over words that held a forwarding address
\* and words of an object when the collection began
C18_Witness ==
    /\ pc = "ret"
    /\ Count("second attempt") = 1
    /\ \E a \in Block : InSpace(pre.mem[a], pre.from)
    /\ \E a \in Block : pre.mem[a] \in Headers \cup { IntVal }

-----------------------------------------------------------------------------
(* C19: when CFLAT_HEAP_WORDS is absent, not a decimal number, zero or odd *)
(* init ends in panic with a descriptive message and exit status 0, and no *)
(* heap is set up: from_base, to_base and bump are never assigned.         *)

InitMessages ==
    { "The CFLAT_HEAP_WORDS environment variable must be set to the desired size of the heap (in words).",
      "CFLAT_HEAP_WORDS must contain a positive even number with no trailing spaces." }

C19_BadHeapSizePanics ==
    /\ from_space # 0 => (heap_size > 0 /\ heap_size % 2 = 0)
    /\ (pc = "exited" /\ from_space = 0) =>
         /\ exit_status = 0
         /\ LastLine(out) \in InitMessages
         /\ << from_space, to_space, bump_ptr >> = << 0, 0, 0 >>
         /\ mem = << >>

-----------------------------------------------------------------------------
(* C20: a call that breaks the contract (init called a second time, alloc  *)
(* called before init) is a fatal error routed through panic: a message is *)
(* printed and the process exits with status 0; no assertion or abort path *)
(* bypasses this.                                                          *)

ContractBroken == (\E n \in Requests : AllocBeforeInit(n)) \/ InitAgain

C20_MisusePanics ==
    [][ ContractBroken
          => /\ pc' = "exited"
             /\ Len(out') = Len(out) + 1
             /\ exit_status' = 0 ]_vars

-----------------------------------------------------------------------------
(* C21: when the scan reaches a copied object whose header has tag 4 it    *)
(* forwards the fields at the payload offsets 0..k, k = (h >> 3) & 0x1F,   *)
(* for every k, k = 0 (one leading pointer field) included.                *)

\* the header of the copy the scan is at
ScannedHeader == mem[scan_ptr]

\* the scan leaves the copy it is at
LeavesObject == pc = "fields" /\ pc' = "scan"

LeadingOffsets(h) ==
    { off \in 0..Low5(Shr(h, 3)) : off < get_payload_words(h) }

C21_LeadingFieldsForwarded ==
    [][ (LeavesObject /\ ScannedHeader % 8 = TAG_STRUCT_PTRS)
          => /\ ScannedOffsets(ScannedHeader) = LeadingOffsets(ScannedHeader)
             /\ \A off \in LeadingOffsets(ScannedHeader) :
                  ~ InSpace(mem[scan_ptr + WORDSIZE + off * WORDSIZE], from_space) ]_vars

-----------------------------------------------------------------------------
(* C22: when the scan is at a copy whose header has tag 0 and a positive   *)
(* size field, it forwards the field at payload offset b + 1 for each bit  *)
(* b set in the 5-bit bitmap, and no other field; for tag 0 with size      *)
(* field 0 and for tag 2 it forwards no field.  The collector forwards     *)
(* offset b + 1 only when it lies inside the payload, b + 1 < W.           *)

\* the offsets the bitmap of a tag-0 header names
BitmapOffsets(h) ==
    IF h % 8 = TAG_STRUCT_ATOMIC /\ Shr(Shr(h, 3), 5) > 0
    THEN { b + 1 : b \in { b \in 0..4 : Bit(Low5(Shr(h, 3)), b) = 1 } }
    ELSE { }

NoPointerTag(h) == h % 8 = TAG_STRUCT_ATOMIC \/ h % 8 = TAG_ARRAY_ATOMIC

\* the payload offsets of the copy under the scan whose word this step changes
FieldsWritten ==
    { off \in 0..(get_payload_words(ScannedHeader) - 1) :
        mem'[scan_ptr + WORDSIZE + off * WORDSIZE] # mem[scan_ptr + WORDSIZE + off * WORDSIZE] }

\* as the sentence reads: every offset the bitmap names is forwarded
C22_BitmapFieldsForwarded ==
    [][ (LeavesObject /\ NoPointerTag(ScannedHeader))
          => ScannedOffsets(ScannedHeader) = BitmapOffsets(ScannedHeader) ]_vars

InPayload(h) == { off \in BitmapOffsets(h) : off < get_payload_words(h) }

ScanStepOnBitmap ==
    /\ (pc = "fields" /\ NoPointerTag(ScannedHeader))
          => FieldsWritten \subseteq InPayload(ScannedHeader)
    /\ (LeavesObject /\ NoPointerTag(ScannedHeader))
          => /\ ScannedOffsets(ScannedHeader) = InPayload(ScannedHeader)
             /\ \A off \in InPayload(ScannedHeader) :
                   ~ InSpace(mem[scan_ptr + WORDSIZE + off * WORDSIZE], from_space)

C22_BitmapFieldsInPayloadForwarded == [][ScanStepOnBitmap]_vars

\* the scan has left a copy with two bitmap fields, both forwarded
C22_Witness ==
    /\ pc = "scan"
    /\ \E n \in Kinds("scanning header") : out[n].a = BitmapStructHeader(3, 3)
    /\ scan_ptr > to_space
    /\ InSpace(mem[to_space + 2 * WORDSIZE], to_space)
    /\ InSpace(mem[to_space + 3 * WORDSIZE], to_space)

-----------------------------------------------------------------------------
(* C23: the payload size W of a header h with len = h >> 3 is len for tags *)
(* 2 and 6, len >> 5 for tag 4 and, for tag 0, len >> 5 when that is       *)
(* positive and 2 * len otherwise.  A copy moves 1 + W words and advances  *)
(* free_ptr by 1 + W, the scan advances scan_ptr by 1 + W, and so scan_ptr *)
(* stops only on the header of a copied object or on free_ptr.             *)

PayloadSize(h) ==
    LET len == Shr(h, 3)
    IN  CASE h % 8 \in { TAG_ARRAY_ATOMIC, TAG_ARRAY_PTRS } -> len
          [] h % 8 = TAG_STRUCT_PTRS -> Shr(len, 5)
          [] h % 8 = TAG_STRUCT_ATOMIC -> IF Shr(len, 5) > 0 THEN Shr(len, 5) ELSE 2 * len
          [] OTHER -> len

\* the headers of the copies made so far, by address in to-space
CopyHeaders == { to_space + (out[n].b - 1) * WORDSIZE : n \in Kinds("moving") }

\* a step of the collection that copies an object to free_ptr
CopiesObject == pc \in GcPcs /\ free_ptr' # free_ptr

\* the from-space address of the header of the object the step copies
CopySource == from_space + (out'[Len(out')].a - 1) * WORDSIZE

CopyAndScanBySize ==
    /\ CopiesObject
          => LET W == PayloadSize(mem[CopySource])
             IN  /\ free_ptr' = free_ptr + (1 + W) * WORDSIZE
                 /\ \A k \in 0..W : mem'[free_ptr + k * WORDSIZE] = mem[CopySource + k * WORDSIZE]
                 /\ \A a \in DOMAIN mem :
                       (InSpace(a, to_space) /\ a >= free_ptr') => mem'[a] = mem[a]
    /\ LeavesObject
          => /\ scan_ptr' = scan_ptr + (1 + PayloadSize(ScannedHeader)) * WORDSIZE
             /\ scan_ptr' = free_ptr \/ scan_ptr' \in CopyHeaders

C23_OneSizeForCopyAndScan == [][CopyAndScanBySize]_vars

\* an atomic struct sized in 2-word chunks and the array after it were
\* copied, and the scan went over both
C23_Witness ==
    /\ pc = "scan"
    /\ scan_ptr = free_ptr
    /\ mem[to_space] = AtomicStructHeader(1)
    /\ Cardinality(Kinds("moving")) = 2
    /\ Cardinality(Kinds("incrementing scanning ptr")) = 2

-----------------------------------------------------------------------------
(* C24: the root walk visits the frames from the caller of _cflat_alloc    *)
(* along the saved frame bases and numbers them 0, 1, 2, ...; in a frame   *)
(* with root count R it forwards exactly the slots frame - 2 - i for       *)
(* i = 0..R-1, in increasing i; it stops before the frame base recorded by *)
(* _cflat_init_gc, which is never read for a root count or for roots.      *)

\* the lines of the walk, in the order of the log
WalkLog == SelectSeq(out, LAMBDA e : e.k \in { "frame", "pointer offset" })

\* the lines of a walk that starts at the frame fp with the number idx
RECURSIVE ExpectedWalk(_, _)
ExpectedWalk(fp, idx) ==
    IF fp >= base_frame_ptr THEN << >>
    ELSE << Ev("frame", idx, stack[fp - WORDSIZE]) >>
           \o [k \in 1..stack[fp - WORDSIZE] |-> Ev("pointer offset", k - 1, 0)]
           \o ExpectedWalk(stack[fp], idx + 1)

\* the frame number idx of the walk
RECURSIVE FrameAt(_)
FrameAt(idx) == IF idx = 0 THEN cur_frame ELSE stack[FrameAt(idx - 1)]

WalkStep ==
    /\ (pc = "frame" /\ pc' = "roots")
          => frame < base_frame_ptr /\ frame = FrameAt(frame_idx)
    /\ (pc = "roots" /\ i' # i)
          => /\ i < stack[frame - WORDSIZE]
             /\ frame < base_frame_ptr
             /\ \A a \in DOMAIN stack : stack'[a] # stack[a] => a = frame - (2 + i) * WORDSIZE
             /\ ~ InSpace(stack'[frame - (2 + i) * WORDSIZE], from_space)
    /\ (pc \in { "scan", "fields" }) => stack' = stack

C24_RootWalk ==
    /\ [][WalkStep]_vars
    /\ [](pc \in { "scan", "fields", "retry" } => WalkLog = ExpectedWalk(cur_frame, 0))

\* a walk over two frames, the caller's with one root and main's with two
C24_Witness ==
    /\ pc = "scan"
    /\ Cardinality(Kinds("frame")) = 2
    /\ Cardinality(Kinds("pointer offset")) = 3
    /\ Kinds("moving") # { }

-----------------------------------------------------------------------------
(* C25: forwarding a slot that holds 0, or a value that is not an address  *)
(* inside [from_space, from_space + H/2), changes nothing: the slot, every *)
(* heap word and free_ptr stay as they are and no '----' line is logged;   *)
(* a frame whose root count is 0 causes no forwarding and no state change. *)

\* the number of '----' lines in a log
DeepLines(o) ==
    Cardinality({ n \in DOMAIN o : o[n].k \in { "copy", "moving", "copy_forwarded", "forwarded" } })

Unmanaged(v) == v = 0 \/ ~ InSpace(v, from_space)

NothingForwarded ==
    /\ mem' = mem
    /\ stack' = stack
    /\ free_ptr' = free_ptr
    /\ DeepLines(out') = DeepLines(out)

\* the step forwards a root that holds v, or a field that holds v
ForwardsRoot(v) ==
    pc = "roots" /\ i' # i /\ stack[frame - (2 + i) * WORDSIZE] = v

ForwardsField(v) ==
    /\ pc = "fields" /\ i' # i
    /\ FieldForwarded(ScannedHeader, i) >= 0
    /\ mem[scan_ptr + WORDSIZE + FieldForwarded(ScannedHeader, i) * WORDSIZE] = v

SkipsUnmanaged ==
    /\ \A v \in { 0, IntVal } \cup { a \in DOMAIN mem : ~ InSpace(a, from_space) } :
          (Unmanaged(v) /\ (ForwardsRoot(v) \/ ForwardsField(v))) => NothingForwarded
    /\ (pc \in { "frame", "roots" } /\ frame < base_frame_ptr /\ stack[frame - WORDSIZE] = 0)
          => /\ NothingForwarded
             /\ pc = "roots" => (pc' = "frame" /\ out' = out)

C25_UnmanagedSlotsSkipped == [][SkipsUnmanaged]_vars

\* a collection called from a frame without roots went over a nil root and
\* over an array of pointers that holds an integer and nil
C25_Witness ==
    /\ pc = "retry"
    /\ cur_frame = CalleeFrame
    /\ stack[root_slot(MainFrame, 1)] = 0
    /\ mem[from_space] = ArrayHeader(2, TRUE)
    /\ mem[from_space + WORDSIZE] = IntVal
    /\ mem[from_space + 2 * WORDSIZE] = 0
    /\ \E n \in Kinds("frame") : out[n].b = 0

-----------------------------------------------------------------------------
(* C26: the relative addresses and the live-word counts the collector      *)
(* reports do not depend on the address of the heap buffer: two runs of    *)
(* the same program on heaps of the same size at different addresses log   *)
(* the same copy, forward and swap events with the same relative           *)
(* addresses.                                                              *)

\* the copy, forward and swap lines of the log o
MoveLog(o) ==
    SelectSeq(o, LAMBDA e : e.k \in { "copy", "moving", "copy_forwarded", "forwarded", "swapping" })

C26_SameEventsAtAnyBase ==
    (RunDone /\ Kinds("second run") # { })
      => LET m == CHOOSE n \in Kinds("second run") : TRUE
         IN  MoveLog(SubSeq(out, 1, m - 1)) = MoveLog(SubSeq(out, m + 1, Len(out)))

-----------------------------------------------------------------------------
(* C27: forwarding addresses do not outlive their collection.  A header    *)
(* is read as a forwarding address only when the same collection wrote it: *)
(* a forwarding address of an earlier collection is never read as one, and *)
(* an object whose header the program wrote is never taken as already      *)
(* forwarded the first time a collection visits it.                        *)

\* the lines at which a collection begins
CollectionStarts == Kinds("triggering collection") \cup Kinds("forced collection")

\* the lines m and n belong to the same collection
SameCollection(m, n) == ~ \E c \in CollectionStarts : m < c /\ c < n

C27_ForwardingWithinCollection ==
    \A n \in Kinds("copy_forwarded") :
      \E m \in Kinds("moving") :
        /\ m < n
        /\ SameCollection(m, n)
        /\ out[m].a = out[n].a
        /\ out[m].b = out[n + 1].b

-----------------------------------------------------------------------------
(* C28: a collection preserves the contents of the objects: every object   *)
(* reachable from the roots has a copy in the new active half with the     *)
(* same header and the same value in every non-pointer payload word, and   *)
(* each pointer field of the copy refers to the copy of the object the     *)
(* field referred to before.                                               *)

\* the objects the collection moved, and the copy of each
Moved_Objects == { x \in PreObjects : MovesOf(x) # { } }
CopyOf(x) == pre.to + out[CHOOSE n \in MovesOf(x) : TRUE].b * WORDSIZE

\* the word a payload word v of the old object becomes in the copy
Translated(h, off, v) ==
    IF off \in PtrFieldOffsets(h) /\ v \in PreObjects
    THEN IF v \in Moved_Objects THEN CopyOf(v) ELSE -1
    ELSE v

C28_ContentsPreserved ==
    pc = "retry" =>
      \A x \in PreReachable :
        /\ x \in Moved_Objects
        /\ LET h == pre.mem[x - WORDSIZE]
               c == CopyOf(x)
           IN  /\ mem[c - WORDSIZE] = h
               /\ \A off \in 0..(get_payload_words(h) - 1) :
                     mem[c + off * WORDSIZE] = Translated(h, off, pre.mem[x + off * WORDSIZE])

-----------------------------------------------------------------------------
(* C29: for every header, the pointer offsets print_header_log shows in    *)
(* '[Struct, size = S, ptr offsets = ...]' are exactly the payload offsets *)
(* the scan loop forwards for an object with that header, and 'none' is    *)
(* shown exactly when no field is forwarded.                               *)

\* the offsets the log shows for the header h
PrintedOffsets(h) ==
    { print_header_log(h).offsets[j] : j \in DOMAIN print_header_log(h).offsets }

C29_PrintedOffsetsAreScanned ==
    \A n \in Kinds("scanning header") :
      print_header_log(out[n].a).form = "Struct"
        => PrintedOffsets(out[n].a) = ScannedOffsets(out[n].a)

-----------------------------------------------------------------------------
(* C30: a call of _cflat_alloc that succeeds on its first attempt changes  *)
(* only bump_ptr and the words of the block it returns: from_space,        *)
(* to_space, every word of every object allocated before, every root slot  *)
(* of the stack and all of to-space stay as they are, and no collection    *)
(* runs.                                                                   *)

\* the call returns from its first attempt
FirstAttemptSucceeds == pc = "run" /\ pc' = "ret"

OnlyTheBlockChanges ==
    /\ result' = bump_ptr
    /\ bump_ptr' = bump_ptr + num_words' * WORDSIZE
    /\ \A a \in DOMAIN mem :
          (a < result' \/ a >= result' + num_words' * WORDSIZE) => mem'[a] = mem[a]
    /\ DOMAIN mem' = DOMAIN mem
    /\ UNCHANGED << from_space, to_space, heap_size, base_frame_ptr, stack, cur_frame,
                    gc_locals, pre >>
    /\ \A n \in DOMAIN out' :
          out'[n].k \notin { "triggering collection", "frame", "starting scan", "swapping" }

C30_FirstAttemptTouchesOnlyTheBlock ==
    [][FirstAttemptSucceeds => OnlyTheBlockChanges]_vars

\* a first attempt succeeded with an object allocated before it and kept
\* in a root
C30_Witness ==
    /\ pc = "ret"
    /\ Len(out) = 2
    /\ out[2].k = "successful"
    /\ result > from_space
    /\ InSpace(result, from_space)
    /\ \E r \in RootSlots(stack, cur_frame) : stack[r] # 0 /\ stack[r] < result

====
